---- MODULE Spec2Model ----
(***************************************************************************)
(* Model of package pathutil of volt (src/pathutil/pathutil.go): the       *)
(* repository-path normalizer, the layout functions built on it, the       *)
(* directory-name codec and the rc-file lookup.                            *)
(*                                                                         *)
(* A Go string is a sequence of one-character strings.  runtime.GOOS is    *)
(* the variable goos; the process environment is the variable env; the     *)
(* outcome of os.Lstat on each rc-file candidate is the variable disk.     *)
(* filepath.Join, filepath.Clean, filepath.Base, filepath.ToSlash and      *)
(* strings.Replacer are modelled by what the Go library does, for both     *)
(* path flavours (separator "/" and, on windows, "\" with a drive name).   *)
(***************************************************************************)
EXTENDS Naturals, Sequences, FiniteSets

VARIABLES goos, env, raw, form, pc, entry, res, renorm, url, full, enc, dec,
          disk, rcPaths, rcI

vars == <<goos, env, raw, form, pc, entry, res, renorm, url, full, enc, dec,
          disk, rcPaths, rcI>>

\* runtime.GOOS: windows, or a platform whose paths are written with "/"
GOOS == {"linux", "windows"}

(***************************************************************************)
(* Bounds of the model.                                                    *)
(***************************************************************************)
\* longest raw repository reference, counted in fragments of RawFragments
MaxFrags == 3
\* longest host, owner or name of a shaped reference, in fragments of SegFragments
MaxSegFrags == 1

(***************************************************************************)
(* String literals of the source.                                          *)
(***************************************************************************)
SLASH == "/"
BACKSLASH == "\\"
DotGit == <<".", "g", "i", "t">>
\* the default host written without the slash that ends it
GithubComNoSlash == <<"g", "i", "t", "h", "u", "b", ".", "c", "o", "m">>
GithubCom == <<"g", "i", "t", "h", "u", "b", ".", "c", "o", "m", "/">>
LocalhostLocal == <<"l", "o", "c", "a", "l", "h", "o", "s", "t", "/",
                    "l", "o", "c", "a", "l", "/">>
HttpsColon == <<"h", "t", "t", "p", "s", ":">>
HttpColon == <<"h", "t", "t", "p", ":">>
GitColon == <<"g", "i", "t", ":">>
HttpsScheme == <<"h", "t", "t", "p", "s", ":", "/", "/">>
\* the message prefix of the error NormalizeRepos returns, kept as one token
InvalidFormat == <<"invalid format of repository: ">>
Volt == <<"v", "o", "l", "t">>
Repos == <<"r", "e", "p", "o", "s">>
Pack == <<"p", "a", "c", "k">>
Opt == <<"o", "p", "t">>
DotVimDir == <<".", "v", "i", "m">>
Vimfiles == <<"v", "i", "m", "f", "i", "l", "e", "s">>
Vimrc == <<"v", "i", "m", "r", "c">>
Gvimrc == <<"g", "v", "i", "m", "r", "c">>

(***************************************************************************)
(* package strings                                                         *)
(***************************************************************************)
HasPrefix(s, p) == Len(s) >= Len(p) /\ SubSeq(s, 1, Len(p)) = p

HasSuffix(s, p) == Len(s) >= Len(p) /\ SubSeq(s, Len(s) - Len(p) + 1, Len(s)) = p

TrimSuffix(s, p) == IF HasSuffix(s, p) THEN SubSeq(s, 1, Len(s) - Len(p)) ELSE s

\* strings.Contains(s, c) for a one-character c
Contains(s, c) == \E i \in 1..Len(s) : s[i] = c

\* the number of non-overlapping occurrences of the string p in s
RECURSIVE Count(_, _)
Count(s, p) ==
    IF Len(s) < Len(p) THEN 0
    ELSE IF HasPrefix(s, p) THEN 1 + Count(SubSeq(s, Len(p) + 1, Len(s)), p)
    ELSE Count(Tail(s), p)

\* strings.Split(s, c) for a one-character c: one more piece than separators
RECURSIVE Split(_, _)
Split(s, c) ==
    IF ~Contains(s, c) THEN <<s>>
    ELSE LET i == CHOOSE k \in 1..Len(s) : s[k] = c /\ \A j \in 1..(k - 1) : s[j] # c
         IN <<SubSeq(s, 1, i - 1)>> \o Split(SubSeq(s, i + 1, Len(s)), c)

\* strings.Join(list, sep) for a string sep
RECURSIVE StringsJoin(_, _)
StringsJoin(list, sep) ==
    IF Len(list) = 0 THEN <<>>
    ELSE IF Len(list) = 1 THEN list[1]
    ELSE list[1] \o sep \o StringsJoin(Tail(list), sep)

\* a strings.Replacer whose old strings are single bytes: one pass, byte by byte
RECURSIVE ReplaceBytes(_, _)
ReplaceBytes(s, table) ==
    IF s = <<>> THEN <<>>
    ELSE (IF Head(s) \in DOMAIN table THEN table[Head(s)] ELSE <<Head(s)>>)
         \o ReplaceBytes(Tail(s), table)

\* a strings.Replacer of one pair old -> new: leftmost non-overlapping matches
RECURSIVE ReplaceString(_, _, _)
ReplaceString(s, old, new) ==
    IF Len(s) < Len(old) THEN s
    ELSE IF HasPrefix(s, old)
         THEN new \o ReplaceString(SubSeq(s, Len(old) + 1, Len(s)), old, new)
    ELSE <<Head(s)>> \o ReplaceString(Tail(s), old, new)

(***************************************************************************)
(* package path/filepath, for the path flavour of goos                     *)
(***************************************************************************)
Separator(os) == IF os = "windows" THEN BACKSLASH ELSE SLASH

IsPathSeparator(os, c) == c = SLASH \/ (os = "windows" /\ c = BACKSLASH)

\* filepath.ToSlash: the separator becomes "/" (nothing to do when it is "/")
ToSlash(os, s) ==
    IF Separator(os) = SLASH THEN s
    ELSE ReplaceBytes(s, [c \in {Separator(os)} |-> <<SLASH>>])

\* the length of filepath.VolumeName: a drive name on windows, nothing elsewhere
VolumeNameLen(os, path) ==
    IF os = "windows" /\ Len(path) >= 2 /\ path[2] = ":" /\ path[1] \in {"C"}
    THEN 2 ELSE 0

\* the elements of path between its separators
RECURSIVE Elements(_, _)
Elements(os, path) ==
    IF \A i \in 1..Len(path) : ~IsPathSeparator(os, path[i]) THEN <<path>>
    ELSE LET i == CHOOSE k \in 1..Len(path) :
                      /\ IsPathSeparator(os, path[k])
                      /\ \A j \in 1..(k - 1) : ~IsPathSeparator(os, path[j])
         IN <<SubSeq(path, 1, i - 1)>> \o Elements(os, SubSeq(path, i + 1, Len(path)))

\* the loop of filepath.Clean over the elements: out is the elements kept so far
RECURSIVE CleanElements(_, _, _)
CleanElements(elems, out, rooted) ==
    IF elems = <<>> THEN out
    ELSE LET e == Head(elems)
             next ==
                 IF e = <<>> \/ e = <<".">> THEN out
                 ELSE IF e = <<".", ".">>
                      THEN IF out # <<>> /\ out[Len(out)] # <<".", ".">>
                           THEN SubSeq(out, 1, Len(out) - 1)
                           ELSE IF rooted THEN out ELSE Append(out, e)
                 ELSE Append(out, e)
         IN CleanElements(Tail(elems), next, rooted)

Clean(os, path) ==
    LET vol == VolumeNameLen(os, path)
        rest == SubSeq(path, vol + 1, Len(path))
        rooted == rest # <<>> /\ IsPathSeparator(os, rest[1])
        kept == CleanElements(Elements(os, rest), <<>>, rooted)
        body == (IF rooted THEN <<Separator(os)>> ELSE <<>>)
                \o StringsJoin(kept, <<Separator(os)>>)
    IN SubSeq(path, 1, vol) \o (IF body = <<>> THEN <<".">> ELSE body)

\* filepath.Join: the elements from the first non-empty one, joined and cleaned
RECURSIVE Join(_, _)
Join(os, elem) ==
    IF elem = <<>> THEN <<>>
    ELSE IF Head(elem) = <<>> THEN Join(os, Tail(elem))
    ELSE Clean(os, StringsJoin(elem, <<Separator(os)>>))

RECURSIVE TrimTrailingSeparators(_, _)
TrimTrailingSeparators(os, path) ==
    IF path # <<>> /\ IsPathSeparator(os, path[Len(path)])
    THEN TrimTrailingSeparators(os, SubSeq(path, 1, Len(path) - 1))
    ELSE path

Base(os, path) ==
    IF path = <<>> THEN <<".">>
    ELSE LET trimmed == TrimTrailingSeparators(os, path)
             novol == SubSeq(trimmed, VolumeNameLen(os, trimmed) + 1, Len(trimmed))
             elems == Elements(os, novol)
             last == elems[Len(elems)]
         IN IF last = <<>> THEN <<Separator(os)>> ELSE last

(***************************************************************************)
(* package pathutil.  A call that can abort returns a record whose status  *)
(* is "panic"; a Go (value, error) pair is a record with status "ok" or    *)
(* "error".                                                                *)
(***************************************************************************)
Ok(v) == [status |-> "ok", val |-> v]
Panic == [status |-> "panic", val |-> <<>>]
Returned(v, e) == [status |-> IF e = <<>> THEN "ok" ELSE "error", val |-> v, msg |-> e]

\* NormalizeRepos with "git:" left out of the schemes it accepts
NormalizeReposNoGitScheme(os, rawReposPath) ==
    LET slashed == ToSlash(os, rawReposPath)
        paths == Split(slashed, SLASH)
    IN IF Len(paths) = 3
       THEN Returned(TrimSuffix(slashed, DotGit), <<>>)
       ELSE IF Len(paths) = 2
       THEN Returned(TrimSuffix(GithubCom \o slashed, DotGit), <<>>)
       ELSE IF paths[1] = HttpsColon \/ paths[1] = HttpColon
       THEN IF Len(paths) < 3
            THEN Panic
            ELSE Returned(TrimSuffix(
                     StringsJoin(SubSeq(paths, Len(paths) - 2, Len(paths)), <<SLASH>>),
                     DotGit), <<>>)
       ELSE Returned(<<>>, InvalidFormat \o slashed)

NormalizeRepos(os, rawReposPath) ==
    LET slashed == ToSlash(os, rawReposPath)
        paths == Split(slashed, SLASH)
    IN IF Len(paths) = 3
       THEN Returned(TrimSuffix(slashed, DotGit), <<>>)
       ELSE IF Len(paths) = 2
       THEN Returned(TrimSuffix(GithubCom \o slashed, DotGit), <<>>)
       ELSE IF paths[1] = HttpsColon \/ paths[1] = HttpColon \/ paths[1] = GitColon
       THEN IF Len(paths) < 3
            THEN Panic           \* paths[len(paths)-3:] with a negative bound
            ELSE Returned(TrimSuffix(
                     StringsJoin(SubSeq(paths, Len(paths) - 2, Len(paths)), <<SLASH>>),
                     DotGit), <<>>)
       ELSE Returned(<<>>, InvalidFormat \o slashed)

\* NormalizeLocalRepos with its test inverted
NormalizeLocalReposInverted(os, name) ==
    IF Contains(name, SLASH)
    THEN Returned(LocalhostLocal \o name, <<>>)
    ELSE NormalizeRepos(os, name)

NormalizeLocalRepos(os, name) ==
    IF ~Contains(name, SLASH)
    THEN Returned(LocalhostLocal \o name, <<>>)
    ELSE NormalizeRepos(os, name)

HomeDir(e) ==
    IF e.HOME # <<>> THEN Ok(e.HOME)
    ELSE IF e.USERPROFILE # <<>> THEN Ok(e.USERPROFILE)
    ELSE Panic

VoltPath(os, e) ==
    IF e.VOLTPATH # <<>> THEN Ok(e.VOLTPATH)
    ELSE IF HomeDir(e).status = "panic" THEN Panic
    ELSE Ok(Join(os, <<HomeDir(e).val, Volt>>))

FullReposPath(os, e, reposPath) ==
    LET reposList == Split(ToSlash(os, reposPath), SLASH)
    IN IF VoltPath(os, e).status = "panic" THEN Panic
       ELSE Ok(Join(os, <<VoltPath(os, e).val, Repos>> \o reposList))

CloneURL(os, reposPath) == HttpsScheme \o ToSlash(os, reposPath)

\* packer without the escape of the underscore
packerNoEscape(s) == ReplaceBytes(s, [c \in {SLASH} |-> <<"_">>])
packer(s) == ReplaceBytes(s, [c \in {"_", SLASH} |->
                                 IF c = "_" THEN <<"_", "_">> ELSE <<"_">>])
unpacker1(s) == ReplaceBytes(s, [c \in {"_"} |-> <<SLASH>>])
unpacker2(s) == ReplaceString(s, <<SLASH, SLASH>>, <<"_">>)

VimDir(os, e) ==
    IF HomeDir(e).status = "panic" THEN Panic
    ELSE IF os = "windows" THEN Ok(Join(os, <<HomeDir(e).val, Vimfiles>>))
    ELSE Ok(Join(os, <<HomeDir(e).val, DotVimDir>>))

VimVoltOptDir(os, e) ==
    IF VimDir(os, e).status = "panic" THEN Panic
    ELSE Ok(Join(os, <<VimDir(os, e).val, Pack, Volt, Opt>>))

EncodeReposPath(os, e, reposPath) ==
    IF VimVoltOptDir(os, e).status = "panic" THEN Panic
    ELSE Ok(Join(os, <<VimVoltOptDir(os, e).val, packer(reposPath)>>))

\* DecodeReposPath without filepath.Base
DecodeReposPathNoBase(os, name) == unpacker2(unpacker1(name))
DecodeReposPath(os, name) == unpacker2(unpacker1(Base(os, name)))

\* the candidates of LookUpVimrc, in the order the code lists them
VimrcCandidates(os, e) ==
    IF os = "windows"
    THEN <<Join(os, <<HomeDir(e).val, <<"_">> \o Vimrc>>),
           Join(os, <<VimDir(os, e).val, Vimrc>>)>>
    ELSE <<Join(os, <<HomeDir(e).val, <<".">> \o Vimrc>>),
           Join(os, <<VimDir(os, e).val, Vimrc>>)>>

\* the candidates of LookUpGvimrc, in the order the code lists them
GvimrcCandidates(os, e) ==
    IF os = "windows"
    THEN <<Join(os, <<HomeDir(e).val, <<"_">> \o Gvimrc>>),
           Join(os, <<VimDir(os, e).val, Gvimrc>>)>>
    ELSE <<Join(os, <<HomeDir(e).val, <<".">> \o Gvimrc>>),
           Join(os, <<VimDir(os, e).val, Gvimrc>>)>>

\* os.Lstat(path) gives no error, ENOENT, or another error (ENOTDIR when a
\* parent of path is a regular file); os.IsNotExist is true of ENOENT alone
LstatResults == {"nil", "ENOENT", "ENOTDIR"}
Lstat(d, path) == d[path]
IsNotExist(err) == err = "ENOENT"
Exists(d, path) == ~IsNotExist(Lstat(d, path))

(***************************************************************************)
(* Inputs.  A raw reference is up to MaxFrags fragments of RawFragments;   *)
(* a shaped reference is built from a host, an owner and a name of up to   *)
(* MaxSegFrags fragments of SegFragments (none of which holds a slash).    *)
(***************************************************************************)
RawFragments == {<<"a">>, <<SLASH>>, <<"_">>, <<".", ".">>, DotGit, <<BACKSLASH>>,
                 GitColon, <<"f", "t", "p", ":">>}
SegFragments == {<<"a">>, <<"b">>, DotGit, <<BACKSLASH>>}

RECURSIVE Strings(_, _)
Strings(frags, n) ==
    IF n = 0 THEN {<<>>}
    ELSE LET shorter == Strings(frags, n - 1)
         IN shorter \cup {s \o f : s \in shorter, f \in frags}

Raws == Strings(RawFragments, MaxFrags)
Segments == Strings(SegFragments, MaxSegFrags) \ {<<>>}
Schemes == {<<"h", "t", "t", "p">>, <<"h", "t", "t", "p", "s">>, <<"g", "i", "t">>}

NoForm == [kind |-> "free", scheme |-> <<>>, host |-> <<>>, owner |-> <<>>,
           name |-> <<>>, git |-> FALSE]
Forms ==
    {[kind |-> k, scheme |-> <<>>, host |-> h, owner |-> o, name |-> n, git |-> g] :
        k \in {"host"}, h \in Segments, o \in Segments, n \in Segments, g \in BOOLEAN}
    \cup
    {[kind |-> k, scheme |-> <<>>, host |-> <<>>, owner |-> o, name |-> n, git |-> g] :
        k \in {"short"}, o \in Segments, n \in Segments, g \in BOOLEAN}
    \cup
    {[kind |-> "url", scheme |-> c, host |-> h, owner |-> o, name |-> n, git |-> g] :
        c \in Schemes, h \in Segments, o \in Segments, n \in Segments, g \in BOOLEAN}

\* the text of a shaped reference: owner/name, host/owner/name or
\* scheme://host/owner/name, each with or without the .git suffix
RawOfForm(f) ==
    LET tail == f.owner \o <<SLASH>> \o f.name \o (IF f.git THEN DotGit ELSE <<>>)
    IN IF f.kind = "short" THEN tail
       ELSE IF f.kind = "host" THEN f.host \o <<SLASH>> \o tail
       ELSE f.scheme \o <<":", SLASH, SLASH>> \o f.host \o <<SLASH>> \o tail

\* an absolute directory of the path flavour of os
Dir(os, name) ==
    IF os = "windows" THEN <<"C", ":", BACKSLASH, name>> ELSE <<SLASH, name>>

\* HOME, USERPROFILE and VOLTPATH: each set to a directory or empty
Envs(os) ==
    {[HOME |-> Dir(os, "h"), USERPROFILE |-> <<>>, VOLTPATH |-> <<>>],
     [HOME |-> <<>>, USERPROFILE |-> Dir(os, "u"), VOLTPATH |-> Dir(os, "v")],
     [HOME |-> <<>>, USERPROFILE |-> <<>>, VOLTPATH |-> <<>>]}

\* the rc-file candidates of both lookups under the environment e
RcCandidates(os, e) ==
    IF HomeDir(e).status = "panic" THEN {}
    ELSE {VimrcCandidates(os, e)[i] : i \in 1..2}
         \cup {GvimrcCandidates(os, e)[i] : i \in 1..2}

(***************************************************************************)
(* The state machine.  pc is the call that returned last.                  *)
(***************************************************************************)
NoResult == [status |-> "none", val |-> <<>>]

Unused ==
    /\ entry = "none" /\ res = NoResult /\ renorm = NoResult
    /\ url = <<>> /\ full = NoResult /\ enc = NoResult /\ dec = <<>>
    /\ rcPaths = <<>> /\ rcI = 0

Init ==
    /\ goos \in GOOS
    /\ env \in Envs(goos)
    /\ raw \in Raws
    /\ form = NoForm
    /\ disk = <<>>
    /\ pc = "start"
    /\ Unused

InitForms ==
    /\ goos \in GOOS
    /\ env \in {[HOME |-> Dir(goos, "h"), USERPROFILE |-> <<>>, VOLTPATH |-> <<>>]}
    /\ form \in Forms
    /\ raw = RawOfForm(form)
    /\ disk = <<>>
    /\ pc = "start"
    /\ Unused

InitRc ==
    /\ goos \in GOOS
    /\ env \in Envs(goos)
    /\ raw = <<>>
    /\ form = NoForm
    /\ disk \in [RcCandidates(goos, env) -> LstatResults]
    /\ pc = "start"
    /\ Unused

CallNormalizeRepos ==
    /\ pc = "start"
    /\ res' = NormalizeRepos(goos, raw)
    /\ entry' = "NormalizeRepos"
    /\ pc' = "normalized"
    /\ UNCHANGED <<goos, env, raw, form, renorm, url, full, enc, dec, disk, rcPaths, rcI>>

CallNormalizeLocalRepos ==
    /\ pc = "start"
    /\ res' = NormalizeLocalRepos(goos, raw)
    /\ entry' = "NormalizeLocalRepos"
    /\ pc' = "normalized"
    /\ UNCHANGED <<goos, env, raw, form, renorm, url, full, enc, dec, disk, rcPaths, rcI>>

\* NormalizeRepos called on the identifier an earlier NormalizeRepos returned
CallNormalizeReposAgain ==
    /\ pc = "normalized" /\ entry = "NormalizeRepos" /\ res.status = "ok"
    /\ renorm' = NormalizeRepos(goos, res.val)
    /\ pc' = "renormalized"
    /\ UNCHANGED <<goos, env, raw, form, entry, res, url, full, enc, dec, disk, rcPaths, rcI>>

CallCloneURL ==
    /\ pc = "normalized" /\ res.status = "ok"
    /\ url' = CloneURL(goos, res.val)
    /\ pc' = "cloneurl"
    /\ UNCHANGED <<goos, env, raw, form, entry, res, renorm, full, enc, dec, disk, rcPaths, rcI>>

CallFullReposPath ==
    /\ pc = "normalized" /\ res.status = "ok"
    /\ full' = FullReposPath(goos, env, res.val)
    /\ pc' = "fullpath"
    /\ UNCHANGED <<goos, env, raw, form, entry, res, renorm, url, enc, dec, disk, rcPaths, rcI>>

CallEncodeReposPath ==
    /\ pc = "normalized" /\ res.status = "ok"
    /\ enc' = EncodeReposPath(goos, env, res.val)
    /\ pc' = "encoded"
    /\ UNCHANGED <<goos, env, raw, form, entry, res, renorm, url, full, dec, disk, rcPaths, rcI>>

CallDecodeReposPath ==
    /\ pc = "encoded" /\ enc.status = "ok"
    /\ dec' = DecodeReposPath(goos, enc.val)
    /\ pc' = "decoded"
    /\ UNCHANGED <<goos, env, raw, form, entry, res, renorm, url, full, enc, disk, rcPaths, rcI>>

Next ==
    \/ CallNormalizeRepos
    \/ CallNormalizeLocalRepos
    \/ CallNormalizeReposAgain
    \/ CallCloneURL
    \/ CallFullReposPath
    \/ CallEncodeReposPath
    \/ CallDecodeReposPath

Spec == Init /\ [][Next]_vars

NextForms == CallNormalizeRepos

SpecForms == InitForms /\ [][NextForms]_vars

(***************************************************************************)
(* LookUpVimrc and LookUpGvimrc, one step of the filtering loop at a time. *)
(* rcPaths is the slice, rcI the loop index (from 0, as in the code).      *)
(***************************************************************************)
\* append(paths[:i], paths[i+1:]...)
RemoveAt(paths, i) == SubSeq(paths, 1, i) \o SubSeq(paths, i + 2, Len(paths))

LookUpVimrc ==
    /\ pc = "start"
    /\ IF HomeDir(env).status = "panic"
       THEN pc' = "vimrc_panicked" /\ rcPaths' = rcPaths
       ELSE pc' = "vimrc_loop" /\ rcPaths' = VimrcCandidates(goos, env)
    /\ rcI' = 0
    /\ UNCHANGED <<goos, env, raw, form, entry, res, renorm, url, full, enc, dec, disk>>

LookUpVimrcLoop ==
    /\ pc = "vimrc_loop"
    /\ IF rcI < Len(rcPaths)
       THEN IF ~Exists(disk, rcPaths[rcI + 1])
            THEN rcPaths' = RemoveAt(rcPaths, rcI) /\ rcI' = rcI /\ pc' = pc
            ELSE rcPaths' = rcPaths /\ rcI' = rcI + 1 /\ pc' = pc
       ELSE rcPaths' = rcPaths /\ rcI' = rcI /\ pc' = "vimrc_returned"
    /\ UNCHANGED <<goos, env, raw, form, entry, res, renorm, url, full, enc, dec, disk>>

LookUpGvimrc ==
    /\ pc = "start"
    /\ IF HomeDir(env).status = "panic"
       THEN pc' = "gvimrc_panicked" /\ rcPaths' = rcPaths
       ELSE pc' = "gvimrc_loop" /\ rcPaths' = GvimrcCandidates(goos, env)
    /\ rcI' = 0
    /\ UNCHANGED <<goos, env, raw, form, entry, res, renorm, url, full, enc, dec, disk>>

LookUpGvimrcLoop ==
    /\ pc = "gvimrc_loop"
    /\ IF rcI < Len(rcPaths)
       THEN IF ~Exists(disk, rcPaths[rcI + 1])
            THEN rcPaths' = RemoveAt(rcPaths, rcI) /\ rcI' = rcI /\ pc' = pc
            ELSE rcPaths' = rcPaths /\ rcI' = rcI + 1 /\ pc' = pc
       ELSE rcPaths' = rcPaths /\ rcI' = rcI /\ pc' = "gvimrc_returned"
    /\ UNCHANGED <<goos, env, raw, form, entry, res, renorm, url, full, enc, dec, disk>>

NextRc ==
    \/ LookUpVimrc
    \/ LookUpVimrcLoop
    \/ LookUpGvimrc
    \/ LookUpGvimrcLoop

SpecRc == InitRc /\ [][NextRc]_vars

(***************************************************************************)
(* The properties.                                                         *)
(***************************************************************************)
\* raw references the injectivity of the codec is compared against, in fragments
MaxOtherFrags == 2

DefaultHost == <<"g", "i", "t", "h", "u", "b", ".", "c", "o", "m">>
SchemeSeparator == <<":", SLASH, SLASH>>
ContainsString(s, p) == Count(s, p) > 0
SchemePrefixes == {c \o SchemeSeparator : c \in Schemes}
SchemeTokens == {c \o <<":">> : c \in Schemes}

\* the identifiers NormalizeRepos and NormalizeLocalRepos return for short references
KnownIds(os) ==
    {NormalizeRepos(os, r).val :
        r \in {x \in Strings(RawFragments, MaxOtherFrags) :
                  NormalizeRepos(os, x).status = "ok"}}
    \cup {NormalizeLocalRepos(os, r).val :
        r \in {x \in Strings(RawFragments, MaxOtherFrags) :
                  NormalizeLocalRepos(os, x).status = "ok"}}

SingleSegment(os, s) == Len(Split(ToSlash(os, s), SLASH)) = 1
UnrecognizedScheme(os, s) ==
    LET paths == Split(ToSlash(os, s), SLASH)
    IN /\ Len(paths) >= 3
       /\ paths[2] = <<>>
       /\ paths[1] # <<>>
       /\ paths[1][Len(paths[1])] = ":"
       /\ paths[1] \notin SchemeTokens

\* C2 (as claimed): NormalizeRepos on a single-segment string, or on a string whose
\* scheme is not http, https or git, returns the invalid-format error carrying the
\* string (its separators written as slashes) and an empty identifier; it neither
\* succeeds nor aborts.
C2_InvalidInputRejected ==
    (/\ pc = "normalized" /\ entry = "NormalizeRepos"
     /\ (SingleSegment(goos, raw) \/ UnrecognizedScheme(goos, raw)))
        => /\ res.status = "error"
           /\ res.val = <<>>
           /\ res.msg = InvalidFormat \o ToSlash(goos, raw)

\* C3 (as claimed): the clone URL of an identifier NormalizeRepos returned begins
\* with "https://", what follows does not begin with a scheme, and "://" occurs once.
C3_CloneURLNoSchemeDuplication ==
    (pc = "cloneurl" /\ entry = "NormalizeRepos")
        => /\ HasPrefix(url, HttpsScheme)
           /\ \A p \in SchemePrefixes :
                  ~HasPrefix(SubSeq(url, Len(HttpsScheme) + 1, Len(url)), p)
           /\ Count(url, SchemeSeparator) = 1

\* C4 (as claimed): an identifier returned by NormalizeRepos or NormalizeLocalRepos
\* has three or more segments, does not end in ".git" and does not begin with a
\* scheme token.
C4_Canonical ==
    (pc = "normalized" /\ res.status = "ok")
        => /\ Len(Split(res.val, SLASH)) >= 3
           /\ ~HasSuffix(res.val, DotGit)
           /\ Split(res.val, SLASH)[1] \notin SchemeTokens

\* C5 (as claimed): an identifier without an underscore is decoded back from its
\* encoded directory name.
C5_RoundTripNoUnderscore ==
    (pc = "decoded" /\ ~Contains(res.val, "_")) => dec = res.val

\* C5 (amended): an identifier without an underscore, without two adjacent slashes
\* and, on windows, without a backslash is decoded back from its encoded
\* directory name.
C5_RoundTripNoUnderscoreNoEmptySegment ==
    (/\ pc = "decoded"
     /\ ~Contains(res.val, "_")
     /\ ~ContainsString(res.val, <<SLASH, SLASH>>)
     /\ (goos = "windows" => ~Contains(res.val, BACKSLASH)))
        => dec = res.val

\* an identifier with no underscore and no empty segment was encoded and decoded
C5_Witness ==
    /\ pc = "decoded"
    /\ ~Contains(res.val, "_")
    /\ ~ContainsString(res.val, <<SLASH, SLASH>>)
    /\ Contains(res.val, "a")
    /\ Contains(enc.val, "_")
    /\ dec = res.val

NoDoubleUnderscore(id) == ~ContainsString(id, <<"_", "_">>)

\* the encoded directory name of every known identifier, per platform and environment
KnownEncodings ==
    [os \in GOOS |->
        [e \in Envs(os) |->
            {<<id, EncodeReposPath(os, e, id).val>> : id \in KnownIds(os)}]]

\* no underscore right after a slash, no two adjacent slashes, no backslash on windows
Separated(os, id) ==
    /\ ~ContainsString(id, <<SLASH, "_">>)
    /\ ~ContainsString(id, <<SLASH, SLASH>>)
    /\ (os = "windows" => ~Contains(id, BACKSLASH))

\* C6 (as claimed): among identifiers without "__", the identifier is decoded back
\* from its encoded name and no other identifier has the same encoded name.
C6_BijectionNoDoubleUnderscore ==
    (pc = "decoded" /\ NoDoubleUnderscore(res.val))
        => /\ dec = res.val
           /\ \A other \in KnownEncodings[goos][env] :
                  (other[2] = enc.val /\ NoDoubleUnderscore(other[1]))
                      => other[1] = res.val

\* C6 (amended): among identifiers without "__", without an underscore right after a
\* slash, without two adjacent slashes and, on windows, without a backslash, the
\* identifier is decoded back from its encoded name and no other such identifier
\* has the same encoded name.
C6_BijectionSeparated ==
    (pc = "decoded" /\ NoDoubleUnderscore(res.val) /\ Separated(goos, res.val))
        => /\ dec = res.val
           /\ \A other \in KnownEncodings[goos][env] :
                  (/\ other[2] = enc.val
                   /\ NoDoubleUnderscore(other[1])
                   /\ Separated(goos, other[1]))
                      => other[1] = res.val

\* an identifier with an underscore inside a segment was encoded and decoded
C6_Witness ==
    /\ pc = "decoded"
    /\ Contains(res.val, "_")
    /\ NoDoubleUnderscore(res.val)
    /\ Separated(goos, res.val)
    /\ ContainsString(enc.val, <<"_", "_">>)
    /\ dec = res.val

\* the identifier C7 expects of a shaped reference
ExpectedOfForm(f) ==
    (IF f.kind = "short" THEN DefaultHost ELSE f.host)
    \o <<SLASH>> \o f.owner \o <<SLASH>> \o f.name

\* C7 (as claimed): owner/name[.git] yields github.com/owner/name, and
\* host/owner/name[.git] and scheme://host/owner/name[.git] yield host/owner/name,
\* for all non-empty slash-free host, owner and name.
C7_Shapes ==
    (pc = "normalized" /\ form.kind # "free")
        => res.status = "ok" /\ res.val = ExpectedOfForm(form)

\* a segment the amended C7 covers: no backslash where the backslash is a separator
PlainSegment(os, seg) == os = "windows" => ~Contains(seg, BACKSLASH)

\* C7 (amended): the same, for segments that hold no path separator of the platform
\* and, when the reference is written without the .git suffix, a name that does not
\* itself end in ".git".
C7_ShapesPlainSegments ==
    (/\ pc = "normalized" /\ form.kind # "free"
     /\ PlainSegment(goos, form.host)
     /\ PlainSegment(goos, form.owner)
     /\ PlainSegment(goos, form.name)
     /\ (form.git \/ ~HasSuffix(form.name, DotGit)))
        => res.status = "ok" /\ res.val = ExpectedOfForm(form)

\* a scheme://host/owner/name.git reference was normalized to host/owner/name
C7_Witness ==
    /\ pc = "normalized"
    /\ form.kind = "url" /\ form.git
    /\ form.host # form.owner /\ form.owner # form.name
    /\ PlainSegment(goos, form.host)
    /\ PlainSegment(goos, form.owner)
    /\ PlainSegment(goos, form.name)
    /\ res.val = ExpectedOfForm(form)

\* C8: NormalizeLocalRepos returns "localhost/local/" and the name for a name
\* without a slash, and what NormalizeRepos returns for a string with a slash
\* ("a/a" gives "github.com/a/a").
C8_LocalOrDelegate ==
    (pc = "normalized" /\ entry = "NormalizeLocalRepos")
        => /\ ~Contains(raw, SLASH)
                => /\ res.status = "ok"
                   /\ res.val = <<"l", "o", "c", "a", "l", "h", "o", "s", "t", SLASH,
                                  "l", "o", "c", "a", "l", SLASH>> \o raw
           /\ Contains(raw, SLASH) => res = NormalizeRepos(goos, raw)
           /\ raw = <<"a", SLASH, "a">>
                => res.status = "ok" /\ res.val = DefaultHost \o <<SLASH, "a", SLASH, "a">>

\* NormalizeLocalRepos returned an error NormalizeRepos gave it
C8_Witness ==
    /\ pc = "normalized" /\ entry = "NormalizeLocalRepos"
    /\ Contains(raw, SLASH)
    /\ res.status = "error"

\* the candidates on disk, in candidate order
OnDisk(d, path) == Lstat(d, path) = "nil"
RECURSIVE Existing(_, _)
Existing(d, paths) ==
    IF paths = <<>> THEN <<>>
    ELSE (IF OnDisk(d, Head(paths)) THEN <<Head(paths)>> ELSE <<>>)
         \o Existing(d, Tail(paths))

\* C9 (as claimed): LookUpVimrc and LookUpGvimrc return exactly the candidates that
\* exist on disk, in candidate order.
C9_OnlyExisting ==
    /\ pc = "vimrc_returned" => rcPaths = Existing(disk, VimrcCandidates(goos, env))
    /\ pc = "gvimrc_returned" => rcPaths = Existing(disk, GvimrcCandidates(goos, env))

\* <tool root>/repos
ReposRoot(os, e) == Join(os, <<VoltPath(os, e).val, Repos>>)

\* C10 (as claimed): the clone destination of an identifier NormalizeRepos returned
\* lies strictly beneath <tool root>/repos: the repos root and a separator are a
\* proper prefix of it.
C10_Contained ==
    (pc = "fullpath" /\ entry = "NormalizeRepos" /\ full.status = "ok")
        => /\ HasPrefix(full.val, ReposRoot(goos, env) \o <<Separator(goos)>>)
           /\ Len(full.val) > Len(ReposRoot(goos, env)) + 1

====
